---- MODULE Spec2Model ----
(***************************************************************************)
(* A model of the boids flocking simulation of src/src/kernel.cu: the      *)
(* device buffers and their pointers, the grid index arrays and boundary   *)
(* tables, and the three simulation steps (brute force, scattered uniform  *)
(* grid, coherent uniform grid) built from the CUDA kernels.               *)
(*                                                                         *)
(* Numbers.  The floats of the program are fixed-point integers: a length  *)
(* or a speed x is the integer x * Unit.  A float-to-int conversion is a   *)
(* truncation toward zero (Quot).  The contents of memory the program      *)
(* never wrote (a cudaMalloc'ed buffer, an index outside an array) are a   *)
(* choice made when the buffers are allocated (the variable wild).  All    *)
(* values are finite: NaN and the infinities of IEEE floats have no        *)
(* counterpart here.                                                       *)
(***************************************************************************)
EXTENDS Integers, Sequences, FiniteSets, TLC

(***************************************************************************)
(* Bounds of the model.                                                    *)
(***************************************************************************)
\* the largest particle count N passed to initSimulation
MaxN == 3
\* the largest number of simulation steps of one run
MaxSteps == 2

\* fixed-point resolution: the float 1.0 is the integer Unit
Unit == 10 * 10

(***************************************************************************)
(* Configuration (kernel.cu lines 40-55).                                  *)
(***************************************************************************)
rule1Distance == 5 * Unit
rule2Distance == 3 * Unit
rule3Distance == 5 * Unit

\* rule1Scale 0.01f, rule2Scale 0.1f, rule3Scale 0.1f: multiplying by the
\* scale is dividing by its inverse
rule1ScaleInv == 100
rule2ScaleInv == 10
rule3ScaleInv == 10

maxSpeed == 1 * Unit
scene_scale == 100 * Unit

(***************************************************************************)
(* Arithmetic on fixed-point numbers and on glm::vec3 (triples).           *)
(***************************************************************************)
Max(a, b) == IF a > b THEN a ELSE b

\* float or int division, truncated toward zero (b > 0)
Quot(a, b) == IF a >= 0 THEN a \div b ELSE -((-a) \div b)

RECURSIVE ISqrtFrom(_, _)
ISqrtFrom(n, r) == IF (r + 1) * (r + 1) > n THEN r ELSE ISqrtFrom(n, r + 1)

\* floor of the square root; the search starts at the largest of 0, 64, 128,
\* ... whose square is at most n
RECURSIVE ISqrtCoarse(_, _)
ISqrtCoarse(n, r) == IF (r + 64) * (r + 64) > n THEN ISqrtFrom(n, r)
                     ELSE ISqrtCoarse(n, r + 64)

ISqrt(n) == ISqrtCoarse(n, 0)

Zero3 == <<0, 0, 0>>
VAdd(a, b) == <<a[1] + b[1], a[2] + b[2], a[3] + b[3]>>
VSub(a, b) == <<a[1] - b[1], a[2] - b[2], a[3] - b[3]>>
VMul(a, k) == <<a[1] * k, a[2] * k, a[3] * k>>
VDiv(a, k) == <<Quot(a[1], k), Quot(a[2], k), Quot(a[3], k)>>
Len2(a) == a[1] * a[1] + a[2] * a[2] + a[3] * a[3]
\* the square of glm::distance(a, b)
Dist2(a, b) == Len2(VSub(a, b))

\* the array (a function on 0..n-1) of a buffer that holds nothing yet
EmptyArr == [i \in {} |-> 0]
\* the array arr itself, computed once and for all its entries
Arr(arr) == arr @@ EmptyArr
Idx(N) == 0 .. (N - 1)

(***************************************************************************)
(* Grid parameters, as initSimulation computes them (lines 162-168).       *)
(***************************************************************************)
gridCellWidth == 2 * Max(Max(rule1Distance, rule2Distance), rule3Distance)
halfSideCount == Quot(scene_scale, gridCellWidth) + 1
gridSideCount == 2 * halfSideCount
gridCellCount == gridSideCount * gridSideCount * gridSideCount
halfGridWidth == gridCellWidth * halfSideCount
Cells == 0 .. (gridCellCount - 1)

(***************************************************************************)
(* Memory.  The five vec3 buffers initSimulation allocates are named by    *)
(* the pointer that first holds them; the pointers dev_pos, dev_vel1, ...  *)
(* are variables whose values are these names, so that a swap of pointers  *)
(* is a swap and not a copy.                                               *)
(***************************************************************************)
Allocs == {"pos", "vel1", "vel2", "pos_co", "vel_co"}
NullPtr == "null"

\* What never-written memory holds in one run: every int of it reads as
\* int, every vec3 as vec.
Wilds ==
  { [int |-> 0, vec |-> Zero3],
    [int |-> -1, vec |-> <<3 * Unit, -2 * Unit, Unit \div 2>>],
    [int |-> 1, vec |-> <<-Unit, 2 * Unit, 0>>] }

\* arr[j] as the device reads it: outside the array, whatever is there.
\* The two boundary tables (gridCellCount ints each) are kept as the entries
\* the program has written since their allocation: any other entry, like an
\* index outside the table, reads as never-written memory.
ReadInt(arr, j, w) == IF j \in DOMAIN arr THEN arr[j] ELSE w.int
ReadVec(arr, j, w) == IF j \in DOMAIN arr THEN arr[j] ELSE w.vec

(***************************************************************************)
(* kernGenerateRandomPosArray and generateRandomVec3 (lines 103-136).  The *)
(* hash and the random engine are a fixed table of points of (-1, 1)^3:    *)
(* the vector is a function of (int)(index * time) alone.                  *)
(***************************************************************************)
RandTable ==
  << <<5, 1, 5>>, <<5, 3, 5>>, <<5, -1, 5>>, <<-42, 17, 8>> >>

generateRandomVec3(time, index) ==
  LET t == RandTable[((index * time) % Len(RandTable)) + 1]
  IN  <<(t[1] * Unit) \div 100, (t[2] * Unit) \div 100, (t[3] * Unit) \div 100>>

kernGenerateRandomPosArray(time, N, scale) ==
  Arr([index \in Idx(N) |->
         VMul(generateRandomVec3(time, index), scale \div Unit)])

(***************************************************************************)
(* The boids rules.  A visit is one neighbour b the loop of a velocity     *)
(* kernel reaches with b # iSelf: the position and the velocity read for   *)
(* it.  The three kernels accumulate the same sums over their visits       *)
(* (lines 257-290, 520-553, 620-653).                                      *)
(***************************************************************************)
RECURSIVE SumPos(_)
SumPos(visits) == IF visits = << >> THEN Zero3
                  ELSE VAdd(Head(visits).pos, SumPos(Tail(visits)))

RECURSIVE SumVel(_)
SumVel(visits) == IF visits = << >> THEN Zero3
                  ELSE VAdd(Head(visits).vel, SumVel(Tail(visits)))

Within(visits, selfPos, d) ==
  SelectSeq(visits, LAMBDA r : Dist2(selfPos, r.pos) < d * d)

\* Rule 1: fly towards the perceived centre of mass
Rule1(visits, selfPos) ==
  LET near == Within(visits, selfPos, rule1Distance)
      numRule1 == Len(near)
  IN  IF numRule1 # 0
      THEN VDiv(VSub(VDiv(SumPos(near), numRule1), selfPos), rule1ScaleInv)
      ELSE Zero3

\* a rule 2 that pulls the boids together: c += (pos[b] - pos[iSelf])
Rule2Attract(visits, selfPos) ==
  LET near == Within(visits, selfPos, rule2Distance)
  IN  VDiv(VSub(SumPos(near), VMul(selfPos, Len(near))), rule2ScaleInv)

\* Rule 2: keep a distance: c -= (pos[b] - pos[iSelf]), then c *= rule2Scale
Rule2(visits, selfPos) ==
  LET near == Within(visits, selfPos, rule2Distance)
  IN  VDiv(VSub(VMul(selfPos, Len(near)), SumPos(near)), rule2ScaleInv)

\* Rule 3: match the velocity of the surrounding boids
Rule3(visits, selfPos) ==
  LET near == Within(visits, selfPos, rule3Distance)
      numRule3 == Len(near)
  IN  IF numRule3 # 0
      THEN VDiv(VDiv(SumVel(near), numRule3), rule3ScaleInv)
      ELSE Zero3

velocityChange(visits, selfPos) ==
  VAdd(VAdd(Rule1(visits, selfPos), Rule2(visits, selfPos)),
       Rule3(visits, selfPos))

\* glm::normalize(v) * maxSpeed
Normalized(v) ==
  LET len == ISqrt(Len2(v))
  IN  <<Quot(v[1] * maxSpeed, len), Quot(v[2] * maxSpeed, len),
        Quot(v[3] * maxSpeed, len)>>

\* a speed limit that lets every vector through; with it in place of
\* clampSpeed the bound on the stored speed is lost
NoClamp(newVector) == newVector

\* the speed limit (lines 309-311, 556-558, 656-658)
clampSpeed(newVector) ==
  IF Len2(newVector) > maxSpeed * maxSpeed THEN Normalized(newVector)
  ELSE newVector

\* the test before printf("Speed limit exceeded.") (lines 312, 559, 659)
speedLimitExceeded(newVector) ==
  \/ newVector[1] > maxSpeed
  \/ newVector[2] > maxSpeed
  \/ newVector[3] > maxSpeed

\* whether a thread whose newVector is raw before the speed limit prints
\* the warning: the test is made on the vector the speed limit leaves
\* (lines 309-314, 556-561, 656-661)
printsSpeedWarning(raw) == speedLimitExceeded(clampSpeed(raw))

(***************************************************************************)
(* Brute force (lines 247-316).                                            *)
(***************************************************************************)
RECURSIVE VisitsBrute(_, _, _, _)
VisitsBrute(i, iSelf, pos, vel) ==
  IF i < 0 THEN << >>
  ELSE VisitsBrute(i - 1, iSelf, pos, vel)
       \o (IF iSelf # i THEN << [pos |-> pos[i], vel |-> vel[i]] >> ELSE << >>)

computeVelocityChange(N, iSelf, pos, vel) ==
  velocityChange(VisitsBrute(N - 1, iSelf, pos, vel), pos[iSelf])

\* the value of newVector before the speed limit (line 306)
rawVelocityBruteForce(N, i, pos, vel1) ==
  VAdd(computeVelocityChange(N, i, pos, vel1), vel1[i])

\* the array vel2 after the kernel: thread i writes vel2[i]
kernUpdateVelocityBruteForce(N, pos, vel1, vel2) ==
  Arr([i \in Idx(N) |-> clampSpeed(rawVelocityBruteForce(N, i, pos, vel1))])

(***************************************************************************)
(* kernUpdatePos (lines 322-341): integrate, then wrap around the scene.   *)
(***************************************************************************)
\* a wrap that forgets the upper face of the scene
NoUpperWrap(x) == IF x < -scene_scale THEN scene_scale ELSE x

wrapCoord(x) ==
  LET lo == IF x < -scene_scale THEN scene_scale ELSE x
  IN  IF lo > scene_scale THEN -scene_scale ELSE lo

\* an integration that ignores dt and always advances by one full velocity
kernUpdatePosUnitDt(N, dt, pos, vel) ==
  Arr([index \in Idx(N) |->
         LET thisPos == VAdd(pos[index], vel[index])
         IN  <<wrapCoord(thisPos[1]), wrapCoord(thisPos[2]),
               wrapCoord(thisPos[3])>>])

kernUpdatePos(N, dt, pos, vel) ==
  Arr([index \in Idx(N) |->
         LET thisPos == VAdd(pos[index], VMul(vel[index], dt))
         IN  <<wrapCoord(thisPos[1]), wrapCoord(thisPos[2]),
               wrapCoord(thisPos[3])>>])

(***************************************************************************)
(* Grid indexing (lines 349-376).  inverseCellWidth * v is v divided by    *)
(* the cell width; the conversion to glm::ivec3 truncates.                 *)
(***************************************************************************)
gridIndex3Dto1D(x, y, z, gridResolution) ==
  x + y * gridResolution + z * gridResolution * gridResolution

\* (pos - gridMin) in fixed point; divided by the cell width it is the
\* kernels' spacialIndex
relativePos(pos, gridMin) == VSub(pos, gridMin)

\* glm::ivec3(inverseCellWidth * (-gridMin + pos))
cellCoords(pos, gridMin, cellWidth) == VDiv(relativePos(pos, gridMin), cellWidth)

cellOfPos(pos, gridMin, cellWidth, gridResolution) ==
  LET gridCells == cellCoords(pos, gridMin, cellWidth)
  IN  gridIndex3Dto1D(gridCells[1], gridCells[2], gridCells[3], gridResolution)

\* a labelling that gives every particle the cell of particle 0
kernComputeIndicesFirst(N, gridResolution, gridMin, cellWidth, pos) ==
  [indices |-> Arr([i \in Idx(N) |-> i]),
   gridIndices |-> Arr([i \in Idx(N) |->
                      cellOfPos(pos[0], gridMin, cellWidth, gridResolution)])]

kernComputeIndices(N, gridResolution, gridMin, cellWidth, pos) ==
  [indices |-> Arr([i \in Idx(N) |-> i]),
   gridIndices |-> Arr([i \in Idx(N) |->
                      cellOfPos(pos[i], gridMin, cellWidth, gridResolution)])]

\* a write to entry k of a boundary table; outside the table it does not
\* reach the table
Store(tbl, k, v) ==
  IF k \in Cells
  THEN Arr([c \in (DOMAIN tbl) \cup {k} |-> IF c = k THEN v ELSE tbl[c]])
  ELSE tbl

\* kernResetIntBuffer (lines 380-385) on a boundary table: the threads
\* index < N write, so the first N entries only
kernResetIntBuffer(N, intBuffer, value) ==
  Arr([index \in (DOMAIN intBuffer) \cup (Idx(N) \cap Cells) |->
         IF index < N THEN value ELSE intBuffer[index]])

(***************************************************************************)
(* thrust::sort_by_key (lines 714, 772): the keys in ascending order, the  *)
(* values permuted with them.  The order of equal keys is the library's    *)
(* choice: tie is "asc" (by original index) or "desc".                     *)
(***************************************************************************)
TieOrders == {"asc", "desc"}

SortBefore(keys, tie, j, i) ==
  \/ keys[j] < keys[i]
  \/ /\ keys[j] = keys[i]
     /\ IF tie = "asc" THEN j < i ELSE j > i

\* SortedFrom[k] is the original index of the entry that ends at place k
SortedFrom(keys, tie) ==
  Arr([k \in DOMAIN keys |->
         CHOOSE i \in DOMAIN keys :
           Cardinality({j \in DOMAIN keys : SortBefore(keys, tie, j, i)}) = k])

\* a sort that orders the keys and leaves the values where they were
sortKeysOnly(keys, values, tie) ==
  LET from == SortedFrom(keys, tie)
  IN  [keys |-> Arr([k \in DOMAIN keys |-> keys[from[k]]]),
       values |-> values]

sort_by_key(keys, values, tie) ==
  LET from == SortedFrom(keys, tie)
  IN  [keys |-> Arr([k \in DOMAIN keys |-> keys[from[k]]]),
       values |-> Arr([k \in DOMAIN keys |-> values[from[k]]])]

(***************************************************************************)
(* kernIdentifyCellStartEnd (lines 387-414).  The threads of one launch    *)
(* are applied one after the other, thread 0 first; threads with i >= N    *)
(* write nothing.                                                          *)
(***************************************************************************)
\* a thread that marks its own index as the start of its cell without
\* looking at the entry before it
threadIdentifyEveryStart(i, N, particleGridIndices, tbl) ==
  IF i < N
  THEN [tbl EXCEPT !.start = Store(tbl.start, particleGridIndices[i], i)]
  ELSE tbl

\* the table entries thread i stores into (lines 397-407)
writesIdentifyCellStartEnd(i, N, particleGridIndices) ==
  (IF i > 0 /\ i = N - 1
   THEN {[table |-> "end", cell |-> particleGridIndices[i]]} ELSE {})
  \cup
  (IF i = 0
   THEN {[table |-> "start", cell |-> particleGridIndices[i]]}
   ELSE IF i < N /\ particleGridIndices[i - 1] # particleGridIndices[i]
   THEN {[table |-> "end", cell |-> particleGridIndices[i - 1]],
         [table |-> "start", cell |-> particleGridIndices[i]]}
   ELSE {})

threadIdentifyCellStartEnd(i, N, particleGridIndices, tbl) ==
  LET afterLast ==
        IF i > 0 /\ i = N - 1
        THEN [tbl EXCEPT !.end = Store(tbl.end, particleGridIndices[i], i)]
        ELSE tbl
  IN  IF i = 0
      THEN [afterLast EXCEPT
              !.start = Store(afterLast.start, particleGridIndices[i], i)]
      ELSE IF i < N /\ particleGridIndices[i - 1] # particleGridIndices[i]
      THEN [start |-> Store(afterLast.start, particleGridIndices[i], i),
            end |-> Store(afterLast.end, particleGridIndices[i - 1], i - 1)]
      ELSE afterLast

RECURSIVE identifyUpTo(_, _, _, _)
identifyUpTo(i, N, particleGridIndices, tbl) ==
  IF i < 0 THEN tbl
  ELSE threadIdentifyCellStartEnd(i, N, particleGridIndices,
         identifyUpTo(i - 1, N, particleGridIndices, tbl))

kernIdentifyCellStartEnd(N, particleGridIndices, gridCellStartIndices, gridCellEndIndices) ==
  identifyUpTo(N - 1, N, particleGridIndices,
               [start |-> gridCellStartIndices, end |-> gridCellEndIndices])

(***************************************************************************)
(* calculateBoidNeighborCells (lines 416-466).  rel is spacialIndex times  *)
(* the cell width.  All three tests assign x; y and z stay 1.              *)
(***************************************************************************)
lessThanHalf(a, cellWidth) == 2 * a < cellWidth

calculateBoidNeighborCells(rel, cellWidth, gridResolution) ==
  LET cell == VDiv(rel, cellWidth)
      aux == VSub(rel, VMul(cell, cellWidth))
      x == IF \/ lessThanHalf(aux[1], cellWidth)
              \/ lessThanHalf(aux[2], cellWidth)
              \/ lessThanHalf(aux[3], cellWidth)
           THEN -1 ELSE 1
      y == 1
      z == 1
      diffs == << <<0, 0, 0>>, <<x, 0, 0>>, <<0, y, 0>>, <<0, 0, z>>,
                  <<x, y, 0>>, <<0, y, z>>, <<x, 0, z>>, <<x, y, z>> >>
  IN  [i \in 1 .. 8 |->
         LET toEval == VAdd(cell, diffs[i])
         IN  IF \/ toEval[1] < 0 \/ toEval[1] >= gridResolution
                \/ toEval[2] < 0 \/ toEval[2] >= gridResolution
                \/ toEval[3] < 0 \/ toEval[3] >= gridResolution
             THEN -1
             ELSE gridIndex3Dto1D(toEval[1], toEval[2], toEval[3],
                                  gridResolution)]

\* the values of j of "for (j = first; j <= last; j++)"
RangeSeq(first, last) ==
  IF last < first THEN << >>
  ELSE [k \in 1 .. (last - first + 1) |-> first + k - 1]

RECURSIVE Concat(_)
Concat(seqs) == IF seqs = << >> THEN << >>
                ELSE Head(seqs) \o Concat(Tail(seqs))

(***************************************************************************)
(* kernUpdateVelNeighborSearchScattered (lines 468-563).                   *)
(***************************************************************************)
\* the visits of the inner loop over one cell: j = start .. end inclusive,
\* b = particleArrayIndices[j], skipping b = linearIndex
cellVisitsScattered(cell, linearIndex, gridCellStartIndices, gridCellEndIndices, particleArrayIndices, pos, vel1, w) ==
  LET js == RangeSeq(ReadInt(gridCellStartIndices, cell, w),
                     ReadInt(gridCellEndIndices, cell, w))
      bs == [k \in DOMAIN js |-> ReadInt(particleArrayIndices, js[k], w)]
      others == SelectSeq(bs, LAMBDA b : linearIndex # b)
  IN  [k \in DOMAIN others |->
         [pos |-> ReadVec(pos, others[k], w), vel |-> ReadVec(vel1, others[k], w)]]

visitsScattered(linearIndex, gridResolution, gridMin, cellWidth, gridCellStartIndices, gridCellEndIndices, particleArrayIndices, pos, vel1, w) ==
  LET neighbors == calculateBoidNeighborCells(
                     relativePos(pos[linearIndex], gridMin), cellWidth,
                     gridResolution)
  IN  Concat([i \in 1 .. 8 |->
                IF neighbors[i] < 0 THEN << >>
                ELSE cellVisitsScattered(neighbors[i], linearIndex,
                       gridCellStartIndices, gridCellEndIndices,
                       particleArrayIndices, pos, vel1, w)])

\* newVector of the thread of sorted index `index`, before the speed limit
rawVelocityScattered(index, gridResolution, gridMin, cellWidth, gridCellStartIndices, gridCellEndIndices, particleArrayIndices, pos, vel1, w) ==
  LET linearIndex == particleArrayIndices[index]
  IN  VAdd(velocityChange(
             visitsScattered(linearIndex, gridResolution, gridMin, cellWidth,
               gridCellStartIndices, gridCellEndIndices,
               particleArrayIndices, pos, vel1, w),
             pos[linearIndex]),
           vel1[linearIndex])

\* the array vel2 after the kernel: the thread of sorted index `index`
\* writes vel2[particleArrayIndices[index]]
kernUpdateVelNeighborSearchScattered(N, gridResolution, gridMin, cellWidth, gridCellStartIndices, gridCellEndIndices, particleArrayIndices, pos, vel1, vel2, w) ==
  Arr([slot \in Idx(N) |->
     IF \E index \in Idx(N) : particleArrayIndices[index] = slot
     THEN LET index == CHOOSE k \in Idx(N) : particleArrayIndices[k] = slot
          IN  clampSpeed(rawVelocityScattered(index, gridResolution, gridMin,
                cellWidth, gridCellStartIndices, gridCellEndIndices,
                particleArrayIndices, pos, vel1, w))
     ELSE vel2[slot]])

\* the values of j at which the thread of particle linearIndex reads
\* particleArrayIndices[j] (line 518), over its valid neighbor cells
loopIndicesScattered(linearIndex, gridResolution, gridMin, cellWidth, gridCellStartIndices, gridCellEndIndices, pos, w) ==
  LET neighbors == calculateBoidNeighborCells(
                     relativePos(pos[linearIndex], gridMin), cellWidth,
                     gridResolution)
  IN  UNION { IF neighbors[i] < 0 THEN {}
              ELSE ReadInt(gridCellStartIndices, neighbors[i], w) ..
                   ReadInt(gridCellEndIndices, neighbors[i], w) :
              i \in 1 .. 8 }

(***************************************************************************)
(* kernUpdateVelNeighborSearchCoherent (lines 565-663): the sorted index   *)
(* is the particle index, and the end index is exclusive.                  *)
(***************************************************************************)
cellVisitsCoherent(cell, linearIndex, gridCellStartIndices, gridCellEndIndices, pos, vel1, w) ==
  LET js == RangeSeq(ReadInt(gridCellStartIndices, cell, w),
                     ReadInt(gridCellEndIndices, cell, w) - 1)
      others == SelectSeq(js, LAMBDA j : linearIndex # j)
  IN  [k \in DOMAIN others |->
         [pos |-> ReadVec(pos, others[k], w), vel |-> ReadVec(vel1, others[k], w)]]

visitsCoherent(linearIndex, gridResolution, gridMin, cellWidth, gridCellStartIndices, gridCellEndIndices, pos, vel1, w) ==
  LET neighbors == calculateBoidNeighborCells(
                     relativePos(pos[linearIndex], gridMin), cellWidth,
                     gridResolution)
  IN  Concat([i \in 1 .. 8 |->
                IF neighbors[i] < 0 THEN << >>
                ELSE cellVisitsCoherent(neighbors[i], linearIndex,
                       gridCellStartIndices, gridCellEndIndices, pos, vel1, w)])

rawVelocityCoherent(linearIndex, gridResolution, gridMin, cellWidth, gridCellStartIndices, gridCellEndIndices, pos, vel1, w) ==
  VAdd(velocityChange(
         visitsCoherent(linearIndex, gridResolution, gridMin, cellWidth,
           gridCellStartIndices, gridCellEndIndices, pos, vel1, w),
         pos[linearIndex]),
       vel1[linearIndex])

kernUpdateVelNeighborSearchCoherent(N, gridResolution, gridMin, cellWidth, gridCellStartIndices, gridCellEndIndices, pos, vel1, w) ==
  Arr([linearIndex \in Idx(N) |->
     clampSpeed(rawVelocityCoherent(linearIndex, gridResolution, gridMin,
       cellWidth, gridCellStartIndices, gridCellEndIndices, pos, vel1, w))])

\* the particles (slots of the unsorted arrays) that the two inner loops
\* visit in one cell: Scattered for the particle in slot linearIndex
\* (lines 517-519), Coherent for the particle at sorted index linearIndex
\* (lines 617-619), named through the sorted indices
othersScattered(cell, linearIndex, gridCellStartIndices, gridCellEndIndices, particleArrayIndices, w) ==
  {ReadInt(particleArrayIndices, j, w) :
     j \in ReadInt(gridCellStartIndices, cell, w) ..
           ReadInt(gridCellEndIndices, cell, w)} \ {linearIndex}

othersCoherent(cell, linearIndex, gridCellStartIndices, gridCellEndIndices, particleArrayIndices, w) ==
  {ReadInt(particleArrayIndices, j, w) :
     j \in (ReadInt(gridCellStartIndices, cell, w) ..
            (ReadInt(gridCellEndIndices, cell, w) - 1)) \ {linearIndex}}

\* a reorder that copies the first sorted particle into every entry
kernPropogateFirst(N, particaleArrayIndices, pos, vel) ==
  [pos2 |-> Arr([i \in Idx(N) |-> pos[particaleArrayIndices[0]]]),
   vel2 |-> Arr([i \in Idx(N) |-> vel[particaleArrayIndices[0]]])]

\* kernPropogateCoherency (lines 665-674)
kernPropogateCoherency(N, particaleArrayIndices, pos, vel) ==
  [pos2 |-> Arr([i \in Idx(N) |-> pos[particaleArrayIndices[i]]]),
   vel2 |-> Arr([i \in Idx(N) |-> vel[particaleArrayIndices[i]]])]

(***************************************************************************)
(* The state: the globals of kernel.cu (lines 61-97) and the device memory *)
(* they point to.                                                          *)
(***************************************************************************)
VARIABLES
  phase,                     \* "fresh" before initSimulation, then "running"
  numObjects,
  dev_pos, dev_vel1, dev_vel2, dev_pos_co, dev_vel_co,   \* pointers
  mem,                       \* the vec3 array of each allocated buffer
  dev_particleArrayIndices,
  dev_particleGridIndices,
  dev_gridCellStartIndices,
  dev_gridCellEndIndices,
  gridMinimum,
  wild,                      \* what never-written memory holds in this run
  owner,                     \* history: whose datum each buffer entry holds,
                             \* and the step that wrote it
  last,                      \* history: what the last step read and wrote
  steps,                     \* history: the number of completed steps
  twin,                      \* a second run of the program (SpecTwin)
  probe                      \* the inputs and the result of one kernel or
                             \* library call applied on its own, and the
                             \* record of the host calls around a run

vars == <<phase, numObjects, dev_pos, dev_vel1, dev_vel2, dev_pos_co,
          dev_vel_co, mem, dev_particleArrayIndices, dev_particleGridIndices,
          dev_gridCellStartIndices, dev_gridCellEndIndices, gridMinimum,
          wild, owner, last, steps, twin, probe>>

\* the step durations the callers pass
Dts == {0, 1, 300}

Strategies == {"BruteForce", "ScatteredGrid", "CoherentGrid"}

NoStep ==
  [strategy |-> "none", dt |-> 0, tie |-> "asc",
   evalReads |-> {}, evalWrite |-> NullPtr,
   integPos |-> NullPtr, integVel |-> NullPtr,
   oldPos |-> EmptyArr, oldVel |-> EmptyArr,
   prePos |-> EmptyArr, newVel |-> EmptyArr]

\* the program before initSimulation: zero-initialised globals
Fresh ==
  [phase |-> "fresh", numObjects |-> 0,
   dev_pos |-> NullPtr, dev_vel1 |-> NullPtr, dev_vel2 |-> NullPtr,
   dev_pos_co |-> NullPtr, dev_vel_co |-> NullPtr,
   mem |-> [a \in Allocs |-> EmptyArr],
   dev_particleArrayIndices |-> EmptyArr,
   dev_particleGridIndices |-> EmptyArr,
   dev_gridCellStartIndices |-> EmptyArr,
   dev_gridCellEndIndices |-> EmptyArr,
   gridMinimum |-> Zero3,
   wild |-> [int |-> 0, vec |-> Zero3],
   owner |-> [a \in Allocs |-> EmptyArr],
   last |-> NoStep, steps |-> 0]

\* the state of this run as one record
Cur ==
  [phase |-> phase, numObjects |-> numObjects,
   dev_pos |-> dev_pos, dev_vel1 |-> dev_vel1, dev_vel2 |-> dev_vel2,
   dev_pos_co |-> dev_pos_co, dev_vel_co |-> dev_vel_co,
   mem |-> mem,
   dev_particleArrayIndices |-> dev_particleArrayIndices,
   dev_particleGridIndices |-> dev_particleGridIndices,
   dev_gridCellStartIndices |-> dev_gridCellStartIndices,
   dev_gridCellEndIndices |-> dev_gridCellEndIndices,
   gridMinimum |-> gridMinimum, wild |-> wild,
   owner |-> owner, last |-> last, steps |-> steps]

\* the next state of this run is the record r
Install(r) ==
  /\ phase' = r.phase
  /\ numObjects' = r.numObjects
  /\ dev_pos' = r.dev_pos
  /\ dev_vel1' = r.dev_vel1
  /\ dev_vel2' = r.dev_vel2
  /\ dev_pos_co' = r.dev_pos_co
  /\ dev_vel_co' = r.dev_vel_co
  /\ mem' = r.mem
  /\ dev_particleArrayIndices' = r.dev_particleArrayIndices
  /\ dev_particleGridIndices' = r.dev_particleGridIndices
  /\ dev_gridCellStartIndices' = r.dev_gridCellStartIndices
  /\ dev_gridCellEndIndices' = r.dev_gridCellEndIndices
  /\ gridMinimum' = r.gridMinimum
  /\ wild' = r.wild
  /\ owner' = r.owner
  /\ last' = r.last
  /\ steps' = r.steps

(***************************************************************************)
(* initSimulation (lines 141-188).  cudaMalloc does not clear memory: only *)
(* dev_pos is written, by kernGenerateRandomPosArray.                      *)
(***************************************************************************)
initSimulation(s, N, w) ==
  [s EXCEPT
     !.phase = "running",
     !.numObjects = N,
     !.dev_pos = "pos", !.dev_vel1 = "vel1", !.dev_vel2 = "vel2",
     !.dev_pos_co = "pos_co", !.dev_vel_co = "vel_co",
     !.mem = [a \in Allocs |->
                IF a = "pos"
                THEN kernGenerateRandomPosArray(1, N, scene_scale)
                ELSE [i \in Idx(N) |-> w.vec]],
     !.gridMinimum = VSub(s.gridMinimum,
                          <<halfGridWidth, halfGridWidth, halfGridWidth>>),
     !.dev_particleGridIndices = [i \in Idx(N) |-> w.int],
     !.dev_particleArrayIndices = [i \in Idx(N) |-> w.int],
     !.dev_gridCellStartIndices = EmptyArr,
     !.dev_gridCellEndIndices = EmptyArr,
     !.wild = w,
     !.owner = [a \in Allocs |->
                  [i \in Idx(N) |->
                     [pid |-> IF a \in {"pos", "vel1"} THEN i ELSE -1,
                      gen |-> 0]]],
     !.last = NoStep,
     !.steps = 0]

\* an exchange that loses the first pointer, and one that exchanges nothing
BadSwap(a, b) == <<b, b>>
NoSwap(a, b) == <<a, b>>

\* an exchange that loses the second pointer
KeepFirst(a, b) == <<a, a>>

\* std::swap of two pointers
swap(a, b) == <<b, a>>

\* history: the entries of a buffer a kernel wrote at step k for the
\* particles whose positions are tagged by posOwner
Written(posOwner, k) ==
  [i \in DOMAIN posOwner |-> [pid |-> posOwner[i].pid, gen |-> k]]

(***************************************************************************)
(* stepSimulationNaive (lines 679-691).                                    *)
(***************************************************************************)
stepSimulationNaive(s, dt) ==
  LET N == s.numObjects
      k == s.steps + 1
      \* kernUpdateVelocityBruteForce(numObjects, dev_pos, dev_vel1, dev_vel2)
      newVel == kernUpdateVelocityBruteForce(N, s.mem[s.dev_pos],
                  s.mem[s.dev_vel1], s.mem[s.dev_vel2])
      mem1 == [s.mem EXCEPT ![s.dev_vel2] = newVel]
      \* kernUpdatePos(numObjects, dt, dev_pos, dev_vel1)
      mem2 == [mem1 EXCEPT ![s.dev_pos] =
                 kernUpdatePos(N, dt, mem1[s.dev_pos], mem1[s.dev_vel1])]
      own1 == [s.owner EXCEPT ![s.dev_vel2] = Written(s.owner[s.dev_pos], k)]
      own2 == [own1 EXCEPT ![s.dev_pos] = Written(own1[s.dev_pos], k)]
      \* std::swap(dev_vel1, dev_vel2)
      sw == swap(s.dev_vel1, s.dev_vel2)
  IN  [s EXCEPT
         !.mem = mem2,
         !.dev_vel1 = sw[1], !.dev_vel2 = sw[2],
         !.owner = own2,
         !.steps = k,
         !.last = [strategy |-> "BruteForce", dt |-> dt, tie |-> "asc",
                   evalReads |-> {s.dev_pos, s.dev_vel1},
                   evalWrite |-> s.dev_vel2,
                   integPos |-> s.dev_pos, integVel |-> s.dev_vel1,
                   oldPos |-> s.mem[s.dev_pos], oldVel |-> s.mem[s.dev_vel1],
                   prePos |-> mem1[s.dev_pos], newVel |-> newVel]]

(***************************************************************************)
(* stepSimulationScatteredGrid (lines 693-739).                            *)
(***************************************************************************)
stepSimulationScatteredGrid(s, dt, tie) ==
  LET N == s.numObjects
      k == s.steps + 1
      idx == kernComputeIndices(N, gridSideCount, s.gridMinimum,
                                gridCellWidth, s.mem[s.dev_pos])
      sorted == sort_by_key(idx.gridIndices, idx.indices, tie)
      \* kernResetIntBuffer(numObjects, ..., -1), twice
      endReset == kernResetIntBuffer(N, s.dev_gridCellEndIndices, -1)
      startReset == kernResetIntBuffer(N, s.dev_gridCellStartIndices, -1)
      tbl == kernIdentifyCellStartEnd(N, sorted.keys, startReset, endReset)
      \* kernUpdateVelNeighborSearchScattered(..., dev_pos, dev_vel1, dev_vel2)
      newVel == kernUpdateVelNeighborSearchScattered(N, gridSideCount,
                  s.gridMinimum, gridCellWidth, tbl.start, tbl.end,
                  sorted.values, s.mem[s.dev_pos], s.mem[s.dev_vel1],
                  s.mem[s.dev_vel2], s.wild)
      mem1 == [s.mem EXCEPT ![s.dev_vel2] = newVel]
      \* kernUpdatePos(numObjects, dt, dev_pos, dev_vel2)
      mem2 == [mem1 EXCEPT ![s.dev_pos] =
                 kernUpdatePos(N, dt, mem1[s.dev_pos], mem1[s.dev_vel2])]
      own1 == [s.owner EXCEPT ![s.dev_vel2] =
                 [i \in Idx(N) |->
                    IF \E j \in Idx(N) : sorted.values[j] = i
                    THEN [pid |-> s.owner[s.dev_pos][i].pid, gen |-> k]
                    ELSE s.owner[s.dev_vel2][i]]]
      own2 == [own1 EXCEPT ![s.dev_pos] = Written(own1[s.dev_pos], k)]
      \* std::swap(dev_vel1, dev_vel2)
      sw == swap(s.dev_vel1, s.dev_vel2)
  IN  [s EXCEPT
         !.mem = mem2,
         !.dev_particleArrayIndices = sorted.values,
         !.dev_particleGridIndices = sorted.keys,
         !.dev_gridCellStartIndices = tbl.start,
         !.dev_gridCellEndIndices = tbl.end,
         !.dev_vel1 = sw[1], !.dev_vel2 = sw[2],
         !.owner = own2,
         !.steps = k,
         !.last = [strategy |-> "ScatteredGrid", dt |-> dt, tie |-> tie,
                   evalReads |-> {s.dev_pos, s.dev_vel1},
                   evalWrite |-> s.dev_vel2,
                   integPos |-> s.dev_pos, integVel |-> s.dev_vel2,
                   oldPos |-> s.mem[s.dev_pos], oldVel |-> s.mem[s.dev_vel1],
                   prePos |-> mem1[s.dev_pos], newVel |-> newVel]]

(***************************************************************************)
(* stepSimulationCoherentGrid (lines 741-797).                             *)
(***************************************************************************)
stepSimulationCoherentGrid(s, dt, tie) ==
  LET N == s.numObjects
      k == s.steps + 1
      \* kernResetIntBuffer(numObjects, ..., -1), twice
      endReset == kernResetIntBuffer(N, s.dev_gridCellEndIndices, -1)
      startReset == kernResetIntBuffer(N, s.dev_gridCellStartIndices, -1)
      idx == kernComputeIndices(N, gridSideCount, s.gridMinimum,
                                gridCellWidth, s.mem[s.dev_pos])
      sorted == sort_by_key(idx.gridIndices, idx.indices, tie)
      tbl == kernIdentifyCellStartEnd(N, sorted.keys, startReset, endReset)
      \* kernPropogateCoherency(..., dev_pos, dev_vel1, dev_pos_co, dev_vel_co)
      co == kernPropogateCoherency(N, sorted.values, s.mem[s.dev_pos],
                                   s.mem[s.dev_vel1])
      mem1 == [[s.mem EXCEPT ![s.dev_vel_co] = co.vel2]
                 EXCEPT ![s.dev_pos_co] = co.pos2]
      own1 == [[s.owner EXCEPT ![s.dev_vel_co] =
                  [i \in Idx(N) |-> s.owner[s.dev_vel1][sorted.values[i]]]]
                 EXCEPT ![s.dev_pos_co] =
                  [i \in Idx(N) |-> s.owner[s.dev_pos][sorted.values[i]]]]
      \* kernUpdateVelNeighborSearchCoherent(..., dev_pos_co, dev_vel_co, dev_vel1)
      newVel == kernUpdateVelNeighborSearchCoherent(N, gridSideCount,
                  s.gridMinimum, gridCellWidth, tbl.start, tbl.end,
                  mem1[s.dev_pos_co], mem1[s.dev_vel_co], s.wild)
      mem2 == [mem1 EXCEPT ![s.dev_vel1] = newVel]
      own2 == [own1 EXCEPT ![s.dev_vel1] = Written(own1[s.dev_pos_co], k)]
      \* kernUpdatePos(numObjects, dt, dev_pos_co, dev_vel1)
      mem3 == [mem2 EXCEPT ![s.dev_pos_co] =
                 kernUpdatePos(N, dt, mem2[s.dev_pos_co], mem2[s.dev_vel1])]
      own3 == [own2 EXCEPT ![s.dev_pos_co] = Written(own2[s.dev_pos_co], k)]
      \* std::swap(dev_vel_co, dev_vel2); std::swap(dev_pos, dev_pos_co)
      swv == swap(s.dev_vel_co, s.dev_vel2)
      swp == swap(s.dev_pos, s.dev_pos_co)
  IN  [s EXCEPT
         !.mem = mem3,
         !.dev_particleArrayIndices = sorted.values,
         !.dev_particleGridIndices = sorted.keys,
         !.dev_gridCellStartIndices = tbl.start,
         !.dev_gridCellEndIndices = tbl.end,
         !.dev_vel_co = swv[1], !.dev_vel2 = swv[2],
         !.dev_pos = swp[1], !.dev_pos_co = swp[2],
         !.owner = own3,
         !.steps = k,
         !.last = [strategy |-> "CoherentGrid", dt |-> dt, tie |-> tie,
                   evalReads |-> {s.dev_pos_co, s.dev_vel_co},
                   evalWrite |-> s.dev_vel1,
                   integPos |-> s.dev_pos_co, integVel |-> s.dev_vel1,
                   oldPos |-> s.mem[s.dev_pos], oldVel |-> s.mem[s.dev_vel1],
                   prePos |-> mem2[s.dev_pos_co], newVel |-> newVel]]

(***************************************************************************)
(* The program: initSimulation once, then steps that the caller chooses.   *)
(***************************************************************************)
NoTwin == Fresh

\* nothing applied on its own yet
NoProbe == [kind |-> "none"]

Init ==
  /\ phase = Fresh.phase
  /\ numObjects = Fresh.numObjects
  /\ dev_pos = Fresh.dev_pos
  /\ dev_vel1 = Fresh.dev_vel1
  /\ dev_vel2 = Fresh.dev_vel2
  /\ dev_pos_co = Fresh.dev_pos_co
  /\ dev_vel_co = Fresh.dev_vel_co
  /\ mem = Fresh.mem
  /\ dev_particleArrayIndices = Fresh.dev_particleArrayIndices
  /\ dev_particleGridIndices = Fresh.dev_particleGridIndices
  /\ dev_gridCellStartIndices = Fresh.dev_gridCellStartIndices
  /\ dev_gridCellEndIndices = Fresh.dev_gridCellEndIndices
  /\ gridMinimum = Fresh.gridMinimum
  /\ wild = Fresh.wild
  /\ owner = Fresh.owner
  /\ last = Fresh.last
  /\ steps = Fresh.steps
  /\ twin = NoTwin
  /\ probe = NoProbe

InitSimulation ==
  /\ phase = "fresh"
  /\ \E N \in 1 .. MaxN, w \in Wilds :
       \E r \in {initSimulation(Cur, N, w)} : Install(r)
  /\ UNCHANGED <<twin, probe>>

StepNaive ==
  /\ phase = "running"
  /\ steps < MaxSteps
  /\ \E dt \in Dts :
       \E r \in {stepSimulationNaive(Cur, dt)} : Install(r)
  /\ UNCHANGED <<twin, probe>>

StepScatteredGrid ==
  /\ phase = "running"
  /\ steps < MaxSteps
  /\ \E dt \in Dts, tie \in TieOrders :
       \E r \in {stepSimulationScatteredGrid(Cur, dt, tie)} : Install(r)
  /\ UNCHANGED <<twin, probe>>

StepCoherentGrid ==
  /\ phase = "running"
  /\ steps < MaxSteps
  /\ \E dt \in Dts, tie \in TieOrders :
       \E r \in {stepSimulationCoherentGrid(Cur, dt, tie)} : Install(r)
  /\ UNCHANGED <<twin, probe>>

Next ==
  \/ InitSimulation
  \/ StepNaive
  \/ StepScatteredGrid
  \/ StepCoherentGrid

Spec == Init /\ [][Next]_vars

(***************************************************************************)
(* Two runs of the program side by side: the same particle count and the   *)
(* same sequence of steps, each run with its own never-written memory.     *)
(***************************************************************************)
TwinInitSimulation ==
  /\ phase = "fresh"
  /\ \E N \in 1 .. MaxN, w \in Wilds, w2 \in Wilds :
       /\ \E r \in {initSimulation(Cur, N, w)} : Install(r)
       /\ twin' = initSimulation(twin, N, w2)
  /\ UNCHANGED probe

TwinStepNaive ==
  /\ phase = "running"
  /\ steps < MaxSteps
  /\ \E dt \in Dts :
       /\ \E r \in {stepSimulationNaive(Cur, dt)} : Install(r)
       /\ twin' = stepSimulationNaive(twin, dt)
  /\ UNCHANGED probe

TwinStepScatteredGrid ==
  /\ phase = "running"
  /\ steps < MaxSteps
  /\ \E dt \in Dts, tie \in TieOrders :
       /\ \E r \in {stepSimulationScatteredGrid(Cur, dt, tie)} : Install(r)
       /\ twin' = stepSimulationScatteredGrid(twin, dt, tie)
  /\ UNCHANGED probe

TwinStepCoherentGrid ==
  /\ phase = "running"
  /\ steps < MaxSteps
  /\ \E dt \in Dts, tie \in TieOrders :
       /\ \E r \in {stepSimulationCoherentGrid(Cur, dt, tie)} : Install(r)
       /\ twin' = stepSimulationCoherentGrid(twin, dt, tie)
  /\ UNCHANGED probe

NextTwin ==
  \/ TwinInitSimulation
  \/ TwinStepNaive
  \/ TwinStepScatteredGrid
  \/ TwinStepCoherentGrid

SpecTwin == Init /\ [][NextTwin]_vars

(***************************************************************************)
(* One routine applied on its own.  The program has not started; probe     *)
(* holds the arguments of the call and, once it has run, its result.       *)
(***************************************************************************)
progVars == <<phase, numObjects, dev_pos, dev_vel1, dev_vel2, dev_pos_co,
              dev_vel_co, mem, dev_particleArrayIndices,
              dev_particleGridIndices, dev_gridCellStartIndices,
              dev_gridCellEndIndices, gridMinimum, wild, owner, last, steps,
              twin>>

ProgramFresh ==
  /\ phase = Fresh.phase
  /\ numObjects = Fresh.numObjects
  /\ dev_pos = Fresh.dev_pos
  /\ dev_vel1 = Fresh.dev_vel1
  /\ dev_vel2 = Fresh.dev_vel2
  /\ dev_pos_co = Fresh.dev_pos_co
  /\ dev_vel_co = Fresh.dev_vel_co
  /\ mem = Fresh.mem
  /\ dev_particleArrayIndices = Fresh.dev_particleArrayIndices
  /\ dev_particleGridIndices = Fresh.dev_particleGridIndices
  /\ dev_gridCellStartIndices = Fresh.dev_gridCellStartIndices
  /\ dev_gridCellEndIndices = Fresh.dev_gridCellEndIndices
  /\ gridMinimum = Fresh.gridMinimum
  /\ wild = Fresh.wild
  /\ owner = Fresh.owner
  /\ last = Fresh.last
  /\ steps = Fresh.steps
  /\ twin = NoTwin

(***************************************************************************)
(* thrust::sort_by_key on its own, as Boids::unitTest calls it (lines      *)
(* 814-876): int keys, int values, the same length.                        *)
(***************************************************************************)
\* the longest key array sorted
MaxLen == 3
SortKeys == 0 .. 2
SortValues == {7, 8}

InitSort ==
  /\ ProgramFresh
  /\ \E n \in 0 .. MaxLen :
       \E keys \in [Idx(n) -> SortKeys], values \in [Idx(n) -> SortValues],
          tie \in TieOrders :
         probe = [kind |-> "sort_by_key", keys |-> keys, values |-> values,
                  tie |-> tie, done |-> FALSE,
                  out |-> [keys |-> EmptyArr, values |-> EmptyArr]]

ApplySortByKey ==
  /\ probe.kind = "sort_by_key"
  /\ ~probe.done
  /\ probe' = [probe EXCEPT
                 !.done = TRUE,
                 !.out = sort_by_key(probe.keys, probe.values, probe.tie)]
  /\ UNCHANGED progVars

NextSort == ApplySortByKey

SpecSort == InitSort /\ [][NextSort]_vars

(***************************************************************************)
(* Vocabulary of the properties.                                           *)
(***************************************************************************)
Stepped == last.strategy # "none"
GridStepped == last.strategy \in {"ScatteredGrid", "CoherentGrid"}

\* the buffers copyBoidsToVBO (lines 225-234) hands to the renderer
snapshotPositions == mem[dev_pos]
snapshotVelocities == mem[dev_vel1]

\* the boundary tables as the evaluator reads them
startOf(c) == ReadInt(dev_gridCellStartIndices, c, wild)
endOf(c) == ReadInt(dev_gridCellEndIndices, c, wild)

\* the cells that hold a particle in the last grid step
PopulatedCells == {dev_particleGridIndices[i] : i \in Idx(numObjects)}

InclusiveSize(c) == endOf(c) - startOf(c) + 1

RECURSIVE SumInclusiveSizes(_)
SumInclusiveSizes(S) ==
  IF S = {} THEN 0
  ELSE LET c == CHOOSE x \in S : TRUE
       IN  InclusiveSize(c) + SumInclusiveSizes(S \ {c})

largestRuleDistance == Max(Max(rule1Distance, rule2Distance), rule3Distance)

\* the candidate cells the grid kernels search for a particle at p
WindowOf(p) ==
  LET neighbors == calculateBoidNeighborCells(relativePos(p, gridMinimum),
                     gridCellWidth, gridSideCount)
  IN  {neighbors[i] : i \in 1 .. 8} \ {-1}

\* every true neighbour of every particle lies in its candidate window
NeighborsInWindow(pos) ==
  \A p \in DOMAIN pos, q \in DOMAIN pos :
    (p # q /\ Dist2(pos[p], pos[q]) < largestRuleDistance * largestRuleDistance)
      => cellOfPos(pos[q], gridMinimum, gridCellWidth, gridSideCount)
           \in WindowOf(pos[p])

(***************************************************************************)
(* C1.  In the velocity-evaluation stage of every step, of any strategy    *)
(* and after any earlier steps, the buffer the kernel writes is none of    *)
(* the position and velocity buffers it reads.                             *)
(***************************************************************************)
C1_EvalWritesAnotherBuffer ==
  Stepped => /\ last.evalWrite \in Allocs
             /\ last.evalReads \subseteq Allocs
             /\ last.evalWrite \notin last.evalReads

\* a coherent step after the velocity pointers have been exchanged once
C1_Witness ==
  /\ steps = 2
  /\ last.strategy = "CoherentGrid"
  /\ last.evalWrite = "vel2"
  /\ last.evalReads = {"pos_co", "vel_co"}

(***************************************************************************)
(* C2.  After the boundary-table build of a grid step, the inclusive       *)
(* sizes end[c] - start[c] + 1 of the cells that hold a particle add up    *)
(* to the particle count N.                                                *)
(***************************************************************************)
C2_RangesAddUpToN ==
  GridStepped => SumInclusiveSizes(PopulatedCells) = numObjects

(***************************************************************************)
(* C3.  In a grid step, every cell of the lattice that holds no particle   *)
(* has start = end = -1 in the tables the evaluator reads.                 *)
(***************************************************************************)
C3_EmptyCellsHoldSentinel ==
  GridStepped =>
    \A c \in Cells \ PopulatedCells : startOf(c) = -1 /\ endOf(c) = -1

(***************************************************************************)
(* C4.  In one step of any strategy, the integration stage moves every     *)
(* particle by dt times the velocity the evaluation stage of that step     *)
(* computed for it.                                                        *)
(***************************************************************************)
C4_IntegratesNewVelocity ==
  Stepped =>
    mem[last.integPos] =
      kernUpdatePos(numObjects, last.dt, last.prePos, last.newVel)

(***************************************************************************)
(* C5.  When every true neighbour of every particle lies in its candidate  *)
(* window, a scattered-grid evaluation yields for every particle the       *)
(* velocity a brute-force evaluation yields from the same positions and    *)
(* velocities.                                                             *)
(***************************************************************************)
C5_ScatteredEqualsBruteForce ==
  (last.strategy = "ScatteredGrid" /\ NeighborsInWindow(last.oldPos)) =>
    last.newVel = kernUpdateVelocityBruteForce(numObjects, last.oldPos,
                    last.oldVel, last.oldVel)

(***************************************************************************)
(* C6.  After any step, every particle's stored velocity has a magnitude   *)
(* of at most maxSpeed, up to the rounding of one fixed-point digit.       *)
(***************************************************************************)
SpeedTolerance == Unit \div 100

C6_SpeedIsLimited ==
  Stepped =>
    \A i \in Idx(numObjects) :
      Len2(snapshotVelocities[i]) <=
        (maxSpeed + SpeedTolerance) * (maxSpeed + SpeedTolerance)

\* a particle that was faster than maxSpeed before the step
C6_Witness ==
  /\ Stepped
  /\ \E i \in Idx(numObjects) :
       /\ Len2(last.oldVel[i]) > 4 * maxSpeed * maxSpeed
       /\ Len2(last.newVel[i]) > (maxSpeed * maxSpeed) \div 2
       /\ Len2(snapshotVelocities[i]) <=
            (maxSpeed + SpeedTolerance) * (maxSpeed + SpeedTolerance)

(***************************************************************************)
(* C7.  After any step, every coordinate of every position in the buffer   *)
(* the next step and the snapshot read lies in [-scene_scale, scene_scale].*)
(***************************************************************************)
C7_PositionsInScene ==
  Stepped =>
    \A i \in Idx(numObjects), k \in 1 .. 3 :
      /\ -scene_scale <= snapshotPositions[i][k]
      /\ snapshotPositions[i][k] <= scene_scale

\* a particle that left the scene on both sides and was put back
C7_Witness ==
  /\ Stepped
  /\ last.dt > 0
  /\ \E i \in Idx(numObjects) :
       /\ snapshotPositions[i][1] = -scene_scale
       /\ snapshotPositions[i][2] = scene_scale

(***************************************************************************)
(* C8.  After any sequence of steps, entry i of the position buffer and    *)
(* entry i of the velocity buffer that the snapshot reads belong to the    *)
(* same particle, and both were written by the last completed step.        *)
(***************************************************************************)
C8_SnapshotIsConsistent ==
  Stepped =>
    /\ snapshotVelocities = last.newVel
    /\ \A i \in Idx(numObjects) :
         /\ owner[dev_pos][i].pid \in Idx(numObjects)
         /\ owner[dev_pos][i].pid = owner[dev_vel1][i].pid
         /\ owner[dev_pos][i].gen = steps
         /\ owner[dev_vel1][i].gen = steps

\* two steps, the last one a coherent step that moved particles to other slots
C8_Witness ==
  /\ steps = 2
  /\ last.strategy = "CoherentGrid"
  /\ \E i \in Idx(numObjects) : owner[dev_pos][i].pid # i
  /\ \A i \in Idx(numObjects) : owner[dev_pos][i].pid = owner[dev_vel1][i].pid

(***************************************************************************)
(* C9.  A step with dt = 0 leaves the position of every particle as it     *)
(* was.  As claimed, entry by entry of the position array: this fails for  *)
(* the coherent grid, which moves the particles to other slots.            *)
(***************************************************************************)
C9_Original_SlotsKeepPositions ==
  (Stepped /\ last.dt = 0) => snapshotPositions = last.oldPos

\* C9 as amended: brute force and scattered grid leave every slot's
\* position as it was; after a coherent-grid step slot i holds the position
\* that slot dev_particleArrayIndices[i] held before the step.
C9_PositionsKeptUpToReorder ==
  (Stepped /\ last.dt = 0) =>
    IF last.strategy = "CoherentGrid"
    THEN \A i \in Idx(numObjects) :
           snapshotPositions[i] = last.oldPos[dev_particleArrayIndices[i]]
    ELSE snapshotPositions = last.oldPos

\* a coherent step with dt = 0 of moving particles that reorders the slots
C9_Witness ==
  /\ Stepped /\ last.dt = 0
  /\ last.strategy = "CoherentGrid"
  /\ \E i \in Idx(numObjects) : dev_particleArrayIndices[i] # i
  /\ \E i \in Idx(numObjects) : snapshotVelocities[i] # Zero3
  /\ snapshotPositions # last.oldPos

(***************************************************************************)
(* C10.  Two runs with the same particle count and the same sequence of    *)
(* steps hold the same positions and velocities after every step.          *)
(***************************************************************************)
C10_TwinRunsAgree ==
  (phase = "running" /\ twin.phase = "running") =>
    /\ snapshotPositions = twin.mem[twin.dev_pos]
    /\ Stepped => snapshotVelocities = twin.mem[twin.dev_vel1]

(***************************************************************************)
(* kernUpdateVelocityBruteForce on its own (lines 247-316): any N          *)
(* positions and velocities out of a few points.  The points lie at the    *)
(* distances 0, 1, 4, 5 and 6 of each other, on both sides of the rule     *)
(* distances 3 and 5.                                                      *)
(***************************************************************************)
RulePoints ==
  { Zero3, <<Unit, 0, 0>>, <<0, 4 * Unit, 0>>, <<6 * Unit, 0, 0>> }
RuleVelocities == { Zero3, <<Unit \div 2, -Unit, Unit \div 5>> }

InitRules ==
  /\ ProgramFresh
  /\ \E N \in 1 .. MaxN :
       \E pos \in [Idx(N) -> RulePoints], vel1 \in [Idx(N) -> RuleVelocities] :
         probe = [kind |-> "BruteForce", N |-> N, pos |-> pos, vel1 |-> vel1,
                  done |-> FALSE,
                  out |-> [center |-> EmptyArr, c |-> EmptyArr,
                           perceived_velocity |-> EmptyArr,
                           newVector |-> EmptyArr, vel2 |-> EmptyArr]]

\* the kernel, with the three sums of computeVelocityChange and the value
\* of newVector at line 306 kept for every thread
ApplyBruteForce ==
  /\ probe.kind = "BruteForce"
  /\ ~probe.done
  /\ LET N == probe.N
         visits(i) == VisitsBrute(N - 1, i, probe.pos, probe.vel1)
     IN  probe' = [probe EXCEPT
           !.done = TRUE,
           !.out = [center |-> Arr([i \in Idx(N) |->
                                     Rule1(visits(i), probe.pos[i])]),
                    c |-> Arr([i \in Idx(N) |->
                                Rule2(visits(i), probe.pos[i])]),
                    perceived_velocity |->
                      Arr([i \in Idx(N) |-> Rule3(visits(i), probe.pos[i])]),
                    newVector |->
                      Arr([i \in Idx(N) |->
                             rawVelocityBruteForce(N, i, probe.pos, probe.vel1)]),
                    vel2 |-> kernUpdateVelocityBruteForce(N, probe.pos,
                               probe.vel1, EmptyArr)]]
  /\ UNCHANGED progVars

NextRules == ApplyBruteForce

SpecRules == InitRules /\ [][NextRules]_vars

(***************************************************************************)
(* Allocation failures.  One of the cudaMalloc calls of initSimulation      *)
(* (lines 147-184) may fail: it leaves its pointer as it was and sets the  *)
(* runtime's last error.  checkCUDAError (lines 23-32) reads and clears    *)
(* the last error; when there is one it prints a diagnostic and exits.     *)
(* Only the first three cudaMalloc calls are followed by a check (lines    *)
(* 148, 151, 154); the next check is the one after the first kernel        *)
(* launch of a step.                                                       *)
(***************************************************************************)
cudaMallocs ==
  << "dev_pos", "dev_vel1", "dev_vel2", "dev_particleGridIndices",
     "dev_particleArrayIndices", "dev_gridCellStartIndices",
     "dev_gridCellEndIndices", "dev_pos_co", "dev_vel_co" >>

\* the allocations followed by checkCUDAErrorWithLine
CheckedMallocs == {"dev_pos", "dev_vel1", "dev_vel2"}

NoFailure == "none"
Failures == {cudaMallocs[i] : i \in DOMAIN cudaMallocs} \cup {NoFailure}

\* the buffers of the first kernel a step launches, before its first check
firstLaunch(strategy) ==
  CASE strategy = "BruteForce" ->
         {"dev_pos", "dev_vel1", "dev_vel2"}
    [] strategy = "ScatteredGrid" ->
         {"dev_pos", "dev_particleArrayIndices", "dev_particleGridIndices"}
    [] strategy = "CoherentGrid" ->
         {"dev_gridCellEndIndices"}

\* initSimulation when the allocation `failed` fails
initSimulationFailing(s, N, w, failed) ==
  IF failed \in CheckedMallocs
  THEN [s EXCEPT !.phase = "exited", !.numObjects = N]
  ELSE LET r == initSimulation(s, N, w)
       IN  [r EXCEPT
              !.dev_pos_co = IF failed = "dev_pos_co" THEN NullPtr ELSE @,
              !.dev_vel_co = IF failed = "dev_vel_co" THEN NullPtr ELSE @]

NoAllocLog ==
  [kind |-> "alloc", failed |-> NoFailure, lastError |-> FALSE,
   exitedIn |-> "none", diagnostic |-> "none", ranOnUnallocated |-> FALSE]

InitAlloc ==
  /\ ProgramFresh
  /\ probe = NoAllocLog

AllocInitSimulation ==
  /\ probe.kind = "alloc"
  /\ phase = "fresh"
  /\ \E N \in 1 .. MaxN, w \in Wilds, failed \in Failures :
       /\ \E r \in {initSimulationFailing(Cur, N, w, failed)} : Install(r)
       /\ probe' =
            IF failed \in CheckedMallocs
            THEN [probe EXCEPT !.failed = failed,
                               !.exitedIn = "initSimulation",
                               !.diagnostic = "cudaMalloc failed!"]
            ELSE [probe EXCEPT !.failed = failed,
                               !.lastError = (failed # NoFailure)]
  /\ UNCHANGED twin

\* a step entered with an error pending: its first kernel is launched, the
\* check after the launch exits
stepExits(strategy) ==
  /\ \E r \in {[Cur EXCEPT !.phase = "exited"]} : Install(r)
  /\ probe' = [probe EXCEPT
                 !.lastError = FALSE,
                 !.exitedIn = strategy,
                 !.diagnostic = "Cuda error",
                 !.ranOnUnallocated = (probe.failed \in firstLaunch(strategy))]

AllocStepNaive ==
  /\ probe.kind = "alloc"
  /\ phase = "running"
  /\ steps < MaxSteps
  /\ IF probe.lastError
     THEN stepExits("BruteForce")
     ELSE /\ \E dt \in Dts :
               \E r \in {stepSimulationNaive(Cur, dt)} : Install(r)
          /\ probe' = probe
  /\ UNCHANGED twin

AllocStepScatteredGrid ==
  /\ probe.kind = "alloc"
  /\ phase = "running"
  /\ steps < MaxSteps
  /\ IF probe.lastError
     THEN stepExits("ScatteredGrid")
     ELSE /\ \E dt \in Dts, tie \in TieOrders :
               \E r \in {stepSimulationScatteredGrid(Cur, dt, tie)} : Install(r)
          /\ probe' = probe
  /\ UNCHANGED twin

AllocStepCoherentGrid ==
  /\ probe.kind = "alloc"
  /\ phase = "running"
  /\ steps < MaxSteps
  /\ IF probe.lastError
     THEN stepExits("CoherentGrid")
     ELSE /\ \E dt \in Dts, tie \in TieOrders :
               \E r \in {stepSimulationCoherentGrid(Cur, dt, tie)} : Install(r)
          /\ probe' = probe
  /\ UNCHANGED twin

NextAlloc ==
  \/ AllocInitSimulation
  \/ AllocStepNaive
  \/ AllocStepScatteredGrid
  \/ AllocStepCoherentGrid

SpecAlloc == InitAlloc /\ [][NextAlloc]_vars

(***************************************************************************)
(* endSimulation (lines 799-812) after a run.  The int arrays are never    *)
(* exchanged: their pointers hold the allocation initSimulation made.      *)
(***************************************************************************)
IntAllocs ==
  [dev_particleGridIndices |-> "particleGridIndices",
   dev_particleArrayIndices |-> "particleArrayIndices",
   dev_gridCellStartIndices |-> "gridCellStartIndices",
   dev_gridCellEndIndices |-> "gridCellEndIndices"]

\* every allocation initSimulation makes
AllAllocs == Allocs \cup {IntAllocs[f] : f \in DOMAIN IntAllocs}

\* the pointer values passed to cudaFree, in the order of the calls
endSimulation(s) ==
  << s.dev_vel1, s.dev_vel2, s.dev_pos,
     IntAllocs.dev_particleGridIndices, IntAllocs.dev_particleArrayIndices,
     IntAllocs.dev_gridCellStartIndices, IntAllocs.dev_gridCellEndIndices,
     s.dev_pos_co, s.dev_vel_co >>

EndSimulation ==
  /\ phase = "running"
  /\ \E r \in {[Cur EXCEPT !.phase = "ended"]} : Install(r)
  /\ probe' = [kind |-> "cudaFree", freed |-> endSimulation(Cur)]
  /\ UNCHANGED twin

NextShutdown ==
  \/ InitSimulation
  \/ StepNaive
  \/ StepScatteredGrid
  \/ StepCoherentGrid
  \/ EndSimulation

SpecShutdown == Init /\ [][NextShutdown]_vars

(***************************************************************************)
(* kernIdentifyCellStartEnd on its own (lines 387-414), thread by thread   *)
(* in any order: N sorted cell indices, and two tables that hold -1 in     *)
(* every entry.                                                            *)
(***************************************************************************)
BuildCells == 0 .. 5

NonDecreasing(keys) ==
  \A i, j \in DOMAIN keys : i < j => keys[i] <= keys[j]

InitBuild ==
  /\ ProgramFresh
  /\ \E N \in 1 .. MaxLen :
       \E keys \in {k \in [Idx(N) -> BuildCells] : NonDecreasing(k)} :
         probe = [kind |-> "kernIdentifyCellStartEnd", N |-> N,
                  particleGridIndices |-> keys,
                  tbl |-> [start |-> [c \in BuildCells |-> -1],
                           end |-> [c \in BuildCells |-> -1]],
                  ran |-> {}, writes |-> {}]

\* thread i of the launch runs
ThreadIdentifyCellStartEnd ==
  /\ probe.kind = "kernIdentifyCellStartEnd"
  /\ \E i \in Idx(probe.N) \ probe.ran :
       probe' = [probe EXCEPT
                  !.ran = @ \cup {i},
                  !.writes = @ \cup
                    {[thread |-> i, table |-> w.table, cell |-> w.cell] :
                       w \in writesIdentifyCellStartEnd(i, probe.N,
                               probe.particleGridIndices)},
                  !.tbl = threadIdentifyCellStartEnd(i, probe.N,
                            probe.particleGridIndices, @)]
  /\ UNCHANGED progVars

NextBuild == ThreadIdentifyCellStartEnd

SpecBuild == InitBuild /\ [][NextBuild]_vars

(***************************************************************************)
(* C11.  Sort-by-key of a key array and a value array of equal length      *)
(* yields the keys in non-decreasing order, and the (key, value) pairs of  *)
(* the result are the pairs of the input, each as often as before: every   *)
(* value stays with its key, and the values of one key are contiguous.     *)
(***************************************************************************)
Sorted(probeRec) == probeRec.kind = "sort_by_key" /\ probeRec.done

PairCount(keys, values, k, v) ==
  Cardinality({i \in DOMAIN keys : keys[i] = k /\ values[i] = v})

C11_SortByKeyContract ==
  Sorted(probe) =>
    LET out == probe.out
        D == DOMAIN probe.keys
    IN  /\ DOMAIN out.keys = D
        /\ DOMAIN out.values = D
        /\ \A i, j \in D : i < j => out.keys[i] <= out.keys[j]
        /\ \A k \in SortKeys, v \in SortValues :
             PairCount(out.keys, out.values, k, v) =
               PairCount(probe.keys, probe.values, k, v)
        /\ \A i, j, m \in D :
             (i < j /\ j < m /\ out.keys[i] = out.keys[m])
               => out.keys[j] = out.keys[i]

\* an unsorted input with one key twice, under two different values
C11_Witness ==
  /\ Sorted(probe)
  /\ \E i, j \in DOMAIN probe.keys :
       /\ i < j
       /\ probe.keys[i] > probe.keys[j]
  /\ \E i, j \in DOMAIN probe.keys :
       /\ i # j
       /\ probe.keys[i] = probe.keys[j]
       /\ probe.values[i] # probe.values[j]
  /\ probe.out.values # probe.values

(***************************************************************************)
(* C12.  The brute-force evaluator's new velocity before the speed limit   *)
(* is vel[p] + rule1 + rule2 + rule3 over the other particles q:           *)
(*   rule1 = (mean of pos[q], q closer than rule1Distance, minus pos[p])   *)
(*           * rule1Scale, when there is such a q;                         *)
(*   rule2 = (sum of -(pos[q] - pos[p]), q closer than rule2Distance)      *)
(*           * rule2Scale;                                                 *)
(*   rule3 = (mean of vel[q], q closer than rule3Distance) * rule3Scale,   *)
(*           when there is such a q.                                       *)
(* For p at the origin with the single neighbour (1, 0, 0), rule1 points   *)
(* to +x and rule2 to -x.                                                  *)
(***************************************************************************)
BruteForced(probeRec) == probeRec.kind = "BruteForce" /\ probeRec.done

\* the other particles closer to p than d
Closer(N, pos, p, d) ==
  {q \in Idx(N) \ {p} : Dist2(pos[p], pos[q]) < d * d}

RECURSIVE SumOfSet(_, _)
SumOfSet(S, arr) ==
  IF S = {} THEN Zero3
  ELSE LET q == CHOOSE x \in S : TRUE
       IN  VAdd(arr[q], SumOfSet(S \ {q}, arr))

MeanOfSet(S, arr) == VDiv(SumOfSet(S, arr), Cardinality(S))

StatedRule1(N, pos, p) ==
  LET S == Closer(N, pos, p, rule1Distance)
  IN  IF S # {} THEN VDiv(VSub(MeanOfSet(S, pos), pos[p]), rule1ScaleInv)
      ELSE Zero3

StatedRule2(N, pos, p) ==
  LET S == Closer(N, pos, p, rule2Distance)
  IN  VDiv(SumOfSet(S, [q \in Idx(N) |-> VSub(pos[p], pos[q])]), rule2ScaleInv)

StatedRule3(N, pos, vel, p) ==
  LET S == Closer(N, pos, p, rule3Distance)
  IN  IF S # {} THEN VDiv(MeanOfSet(S, vel), rule3ScaleInv) ELSE Zero3

C12_BruteForceFormula ==
  BruteForced(probe) =>
    LET N == probe.N
        pos == probe.pos
        vel == probe.vel1
        out == probe.out
    IN  /\ \A p \in Idx(N) :
             /\ out.center[p] = StatedRule1(N, pos, p)
             /\ out.c[p] = StatedRule2(N, pos, p)
             /\ out.perceived_velocity[p] = StatedRule3(N, pos, vel, p)
             /\ out.newVector[p] =
                  VAdd(vel[p], VAdd(VAdd(StatedRule1(N, pos, p),
                                         StatedRule2(N, pos, p)),
                                    StatedRule3(N, pos, vel, p)))
        /\ (N = 2 /\ pos[0] = Zero3 /\ pos[1] = <<Unit, 0, 0>>) =>
             /\ out.center[0][1] > 0
             /\ out.center[0][2] = 0 /\ out.center[0][3] = 0
             /\ out.c[0][1] < 0
             /\ out.c[0][2] = 0 /\ out.c[0][3] = 0

\* the particle at the origin with a moving neighbour at distance 1 (all
\* three rules) and another at distance 4 (rules 1 and 3 only)
C12_Witness ==
  /\ BruteForced(probe)
  /\ probe.N = 3
  /\ probe.pos[0] = Zero3
  /\ probe.pos[1] = <<Unit, 0, 0>>
  /\ probe.pos[2] = <<0, 4 * Unit, 0>>
  /\ probe.vel1[0] # Zero3
  /\ probe.vel1[1] # Zero3
  /\ probe.out.center[0] # Zero3
  /\ probe.out.c[0] # Zero3
  /\ probe.out.perceived_velocity[0] # Zero3

(***************************************************************************)
(* C13.  When an allocation of initSimulation fails, the process exits     *)
(* with a diagnostic inside initSimulation: it is never running with a     *)
(* failed allocation, and no kernel is launched on an unallocated buffer.  *)
(***************************************************************************)
C13_AllocFailureExitsInInit ==
  (probe.kind = "alloc" /\ probe.failed # NoFailure) =>
    /\ phase = "exited"
    /\ probe.exitedIn = "initSimulation"
    /\ probe.diagnostic # "none"
    /\ ~probe.ranOnUnallocated

(***************************************************************************)
(* C14.  After initSimulation and any steps, endSimulation frees every     *)
(* allocation of initSimulation exactly once: the exchanged pointers still *)
(* denote pairwise distinct allocations.                                   *)
(***************************************************************************)
TimesFreed(a) ==
  Cardinality({i \in DOMAIN probe.freed : probe.freed[i] = a})

C14_EveryBufferFreedOnce ==
  /\ phase = "running" =>
       Cardinality({dev_pos, dev_vel1, dev_vel2, dev_pos_co, dev_vel_co}) = 5
  /\ phase = "ended" =>
       /\ \A a \in AllAllocs : TimesFreed(a) = 1
       /\ \A i \in DOMAIN probe.freed : probe.freed[i] \in AllAllocs

\* a shutdown after steps that exchanged the position and velocity pointers
C14_Witness ==
  /\ phase = "ended"
  /\ steps = 2
  /\ dev_pos = "pos_co"
  /\ dev_vel1 = "vel2"
  /\ dev_vel2 # "vel2"

(***************************************************************************)
(* C15.  After the boundary build over a non-decreasing sequence of N >= 1 *)
(* cell indices, every cell c that occurs has start[c] = the first and     *)
(* end[c] = the last sorted index k whose cell is c.                       *)
(***************************************************************************)
Built(probeRec) ==
  /\ probeRec.kind = "kernIdentifyCellStartEnd"
  /\ probeRec.ran = Idx(probeRec.N)

IndicesOf(keys, c) == {k \in DOMAIN keys : keys[k] = c}

C15_RangesAreFirstToLast ==
  Built(probe) =>
    \A c \in {probe.particleGridIndices[k] : k \in Idx(probe.N)} :
      LET ks == IndicesOf(probe.particleGridIndices, c)
      IN  /\ probe.tbl.start[c] \in ks
          /\ probe.tbl.end[c] \in ks
          /\ \A k \in ks : probe.tbl.start[c] <= k /\ k <= probe.tbl.end[c]

(***************************************************************************)
(* C16.  In a scattered-grid evaluation every index j at which             *)
(* particleArrayIndices[j] is read lies in 0..N-1, and so does every slot  *)
(* read from it, also for a candidate cell that holds no particle and      *)
(* whose table entries are -1.                                             *)
(***************************************************************************)
C16_ScatteredReadsInBounds ==
  last.strategy = "ScatteredGrid" =>
    \A linearIndex \in Idx(numObjects) :
      \A j \in loopIndicesScattered(linearIndex, gridSideCount, gridMinimum,
                 gridCellWidth, dev_gridCellStartIndices,
                 dev_gridCellEndIndices, last.oldPos, wild) :
        /\ j \in Idx(numObjects)
        /\ ReadInt(dev_particleArrayIndices, j, wild) \in Idx(numObjects)

(***************************************************************************)
(* C17.  From the positions, velocities, sorted indices and boundary       *)
(* tables of a coherent-grid step, the scattered-grid kernel computes for  *)
(* every particle the velocity the coherent-grid kernel computed for it    *)
(* (the particle at sorted index i is the one in slot                      *)
(* particleArrayIndices[i]), and in every populated candidate cell the two *)
(* kernels visit the same other particles.                                 *)
(***************************************************************************)
scatteredOnLast ==
  kernUpdateVelNeighborSearchScattered(numObjects, gridSideCount, gridMinimum,
    gridCellWidth, dev_gridCellStartIndices, dev_gridCellEndIndices,
    dev_particleArrayIndices, last.oldPos, last.oldVel, last.oldVel, wild)

C17_CoherentMatchesScattered ==
  last.strategy = "CoherentGrid" =>
    \A i \in Idx(numObjects) :
      LET slot == dev_particleArrayIndices[i]
      IN  /\ last.newVel[i] = scatteredOnLast[slot]
          /\ \A cell \in WindowOf(last.oldPos[slot]) \cap PopulatedCells :
                othersCoherent(cell, i, dev_gridCellStartIndices,
                  dev_gridCellEndIndices, dev_particleArrayIndices, wild)
                = othersScattered(cell, slot, dev_gridCellStartIndices,
                    dev_gridCellEndIndices, dev_particleArrayIndices, wild)

(***************************************************************************)
(* calculateBoidNeighborCells on its own: the routine applied to two       *)
(* particles, each given by its position relative to the grid minimum,     *)
(* with the cell width and the lattice of initSimulation.  The coordinates *)
(* put a particle in the first or the last cell of an axis, in the lower   *)
(* or the upper half of the cell.                                          *)
(***************************************************************************)
RelCoords == {2 * Unit, 7 * Unit, 212 * Unit, 217 * Unit}
RelPoints == {<<x, y, z>> : x \in RelCoords, y \in RelCoords, z \in RelCoords}

InitCells ==
  /\ ProgramFresh
  /\ \E p \in RelPoints, q \in RelPoints :
       probe = [kind |-> "calculateBoidNeighborCells", rel |-> <<p, q>>,
                done |-> FALSE, neighbors |-> << >>]

ApplyCalculateBoidNeighborCells ==
  /\ probe.kind = "calculateBoidNeighborCells"
  /\ ~probe.done
  /\ probe' = [probe EXCEPT
                !.done = TRUE,
                !.neighbors =
                  [k \in 1 .. 2 |->
                     calculateBoidNeighborCells(probe.rel[k], gridCellWidth,
                                                gridSideCount)]]
  /\ UNCHANGED progVars

NextCells == ApplyCalculateBoidNeighborCells

SpecCells == InitCells /\ [][NextCells]_vars

(***************************************************************************)
(* C18.  The neighbor cells of a particle are its own cell (first) and the *)
(* cells reached from it by moving zero or one cell along each axis        *)
(* towards one side per axis, cells outside the lattice being marked -1;   *)
(* and the side of an axis depends only on the particle's offset inside    *)
(* its cell along that axis: two particles with the same offset along an   *)
(* axis get the same side along it.                                        *)
(***************************************************************************)
Sides == [1 .. 3 -> {-1, 1}]

offsetInCell(rel) == VSub(rel, VMul(VDiv(rel, gridCellWidth), gridCellWidth))

MarkedCell(c) ==
  IF \E a \in 1 .. 3 : c[a] < 0 \/ c[a] >= gridSideCount THEN -1
  ELSE gridIndex3Dto1D(c[1], c[2], c[3], gridSideCount)

StatedWindow(rel, side) ==
  LET cell == VDiv(rel, gridCellWidth)
  IN  {MarkedCell(<<cell[1] + a * side[1], cell[2] + b * side[2],
                    cell[3] + c * side[3]>>) :
         a \in {0, 1}, b \in {0, 1}, c \in {0, 1}}

\* the choices of sides that explain the cells returned for rel
SidesExplaining(rel, neighbors) ==
  {side \in Sides :
     /\ neighbors[1] = MarkedCell(VDiv(rel, gridCellWidth))
     /\ {neighbors[i] : i \in 1 .. 8} = StatedWindow(rel, side)}

C18_WindowChosenPerAxis ==
  (probe.kind = "calculateBoidNeighborCells" /\ probe.done) =>
    \E s1 \in SidesExplaining(probe.rel[1], probe.neighbors[1]),
       s2 \in SidesExplaining(probe.rel[2], probe.neighbors[2]) :
      \A a \in 1 .. 3 :
        offsetInCell(probe.rel[1])[a] = offsetInCell(probe.rel[2])[a]
          => s1[a] = s2[a]

(***************************************************************************)
(* C19.  In the positions a grid step reads, for every particle p inside   *)
(* the domain and every other particle q closer to p than the largest rule *)
(* distance, the cell of q is one of the candidate cells selected for p.   *)
(***************************************************************************)
InDomain(v) == \A a \in 1 .. 3 : -scene_scale <= v[a] /\ v[a] <= scene_scale

C19_TrueNeighborsInWindow ==
  GridStepped =>
    \A p \in Idx(numObjects), q \in Idx(numObjects) :
      ( /\ p # q
        /\ InDomain(last.oldPos[p])
        /\ Dist2(last.oldPos[p], last.oldPos[q])
             < largestRuleDistance * largestRuleDistance )
      => cellOfPos(last.oldPos[q], gridMinimum, gridCellWidth, gridSideCount)
           \in WindowOf(last.oldPos[p])

(***************************************************************************)
(* The evaluation kernels thread by thread.  A launch starts at least N    *)
(* threads; the threads run in any order, a thread whose index is N or     *)
(* more returns at once (lines 304, 485, 586), and every other thread      *)
(* ends with one store into the output velocity buffer.  The sorted        *)
(* indices are those of a step: indices[i] = i (line 370) sorted by the    *)
(* cell labels (line 714).                                                 *)
(***************************************************************************)
Threads(N) == 0 .. N

\* the slot of vel2 that a thread stores into
writeSlotBruteForce(i) == i

writeSlotFirst(index, particleArrayIndices) == particleArrayIndices[0]

writeSlotScattered(index, particleArrayIndices) == particleArrayIndices[index]

writeSlotCoherent(linearIndex) == linearIndex

InitThreads ==
  /\ ProgramFresh
  /\ \E strategy \in Strategies, N \in 1 .. MaxLen, tie \in TieOrders :
       \E keys \in [Idx(N) -> SortKeys] :
         probe = [kind |-> "evaluation", strategy |-> strategy, N |-> N,
                  particleArrayIndices |->
                    sort_by_key(keys, [i \in Idx(N) |-> i], tie).values,
                  ran |-> {}, stores |-> {}]

\* thread t runs and stores into slot
ThreadRuns(t, slot) ==
  probe' = [probe EXCEPT
             !.ran = @ \cup {t},
             !.stores = IF t >= probe.N THEN @ ELSE @ \cup {<<t, slot>>}]

ThreadBruteForce ==
  /\ probe.kind = "evaluation"
  /\ probe.strategy = "BruteForce"
  /\ \E i \in Threads(probe.N) \ probe.ran :
       ThreadRuns(i, writeSlotBruteForce(i))
  /\ UNCHANGED progVars

ThreadScattered ==
  /\ probe.kind = "evaluation"
  /\ probe.strategy = "ScatteredGrid"
  /\ \E index \in Threads(probe.N) \ probe.ran :
       ThreadRuns(index, IF index >= probe.N THEN index
                         ELSE writeSlotScattered(index,
                                probe.particleArrayIndices))
  /\ UNCHANGED progVars

ThreadCoherent ==
  /\ probe.kind = "evaluation"
  /\ probe.strategy = "CoherentGrid"
  /\ \E linearIndex \in Threads(probe.N) \ probe.ran :
       ThreadRuns(linearIndex, writeSlotCoherent(linearIndex))
  /\ UNCHANGED progVars

NextThreads ==
  \/ ThreadBruteForce
  \/ ThreadScattered
  \/ ThreadCoherent

SpecThreads == InitThreads /\ [][NextThreads]_vars

(***************************************************************************)
(* C20.  In the evaluation kernel of every strategy, in every order of the *)
(* threads, no two threads store into the same slot of the output velocity *)
(* buffer, every store goes to one of the slots 0..N-1, and once all       *)
(* threads have run every slot has been stored into exactly once; the      *)
(* sorted indices, through which the scattered kernel picks its slot, are  *)
(* a permutation of 0..N-1.                                                *)
(***************************************************************************)
Evaluating == probe.kind = "evaluation"

IsPermutation(arr, N) ==
  /\ DOMAIN arr = Idx(N)
  /\ \A slot \in Idx(N) : \E k \in Idx(N) : arr[k] = slot

StoresInto(slot) == {st \in probe.stores : st[2] = slot}

C20_EachSlotStoredOnce ==
  Evaluating =>
    /\ IsPermutation(probe.particleArrayIndices, probe.N)
    /\ \A st \in probe.stores : st[2] \in Idx(probe.N)
    /\ \A slot \in Idx(probe.N) : Cardinality(StoresInto(slot)) <= 1
    /\ probe.ran = Threads(probe.N) =>
         \A slot \in Idx(probe.N) : Cardinality(StoresInto(slot)) = 1

C20_Witness ==
  /\ Evaluating
  /\ probe.strategy = "ScatteredGrid"
  /\ probe.N = MaxLen
  /\ probe.ran = Threads(probe.N)
  /\ probe.particleArrayIndices[0] # 0
  /\ <<0, probe.particleArrayIndices[0]>> \in probe.stores

(***************************************************************************)
(* C21.  After the sort of every grid step, which is what the boundary     *)
(* build and the evaluator read, the sorted indices are a permutation of   *)
(* 0..N-1, the sorted cell labels are non-decreasing, and the label at     *)
(* every k is the flattened cell of the position, as read by this step, of *)
(* the particle the sorted index at k names.                               *)
(***************************************************************************)
C21_IndexArraysCoSorted ==
  GridStepped =>
    /\ IsPermutation(dev_particleArrayIndices, numObjects)
    /\ DOMAIN dev_particleGridIndices = Idx(numObjects)
    /\ NonDecreasing(dev_particleGridIndices)
    /\ \A k \in Idx(numObjects) :
         dev_particleGridIndices[k]
           = cellOfPos(last.oldPos[dev_particleArrayIndices[k]], gridMinimum,
                       gridCellWidth, gridSideCount)

C21_Witness ==
  /\ GridStepped
  /\ numObjects = MaxN
  /\ steps = MaxSteps
  /\ dev_particleArrayIndices[0] # 0
  /\ dev_particleGridIndices[0] < dev_particleGridIndices[numObjects - 1]

(***************************************************************************)
(* C22.  In every coherent-grid step the reorder uses the sorted indices   *)
(* and the evaluation uses its result: entry i of the reordered positions  *)
(* and velocities is entry particleArrayIndices[i] of the positions and    *)
(* velocities the step started from, and the new velocities are computed   *)
(* from the reordered arrays.  After the step the position and velocity    *)
(* entries belong, pairwise, to the N particles, each exactly once.        *)
(***************************************************************************)
\* after the swaps of a coherent step dev_vel2 is the buffer the reorder
\* wrote the velocities to; last.prePos is the reordered position array
reorderedVel == mem[dev_vel2]

C22_ReorderKeepsParticles ==
  last.strategy = "CoherentGrid" =>
    /\ \A i \in Idx(numObjects) :
         /\ last.prePos[i] = last.oldPos[dev_particleArrayIndices[i]]
         /\ reorderedVel[i] = last.oldVel[dev_particleArrayIndices[i]]
    /\ last.newVel
         = kernUpdateVelNeighborSearchCoherent(numObjects, gridSideCount,
             gridMinimum, gridCellWidth, dev_gridCellStartIndices,
             dev_gridCellEndIndices, last.prePos, reorderedVel, wild)
    /\ IsPermutation([i \in Idx(numObjects) |-> owner[dev_pos][i].pid],
                     numObjects)
    /\ \A i \in Idx(numObjects) :
         owner[dev_vel1][i].pid = owner[dev_pos][i].pid

C22_Witness ==
  /\ last.strategy = "CoherentGrid"
  /\ steps = MaxSteps
  /\ numObjects = MaxN
  /\ dev_particleArrayIndices[0] # 0
  /\ owner[dev_pos][0].pid # 0
  /\ last.prePos # last.oldPos

(***************************************************************************)
(* The whole life of the library in one process: initSimulation, steps,    *)
(* endSimulation, and initSimulation again.  The globals are those of the  *)
(* process: nothing resets them between an endSimulation and the next      *)
(* initSimulation.  probe counts the calls of initSimulation.              *)
(***************************************************************************)
MaxInits == 2

InitRestart ==
  /\ ProgramFresh
  /\ probe = [kind |-> "process", inits |-> 0]

CallInitSimulation ==
  /\ phase \in {"fresh", "ended"}
  /\ probe.inits < MaxInits
  /\ \E N \in 1 .. MaxN, w \in Wilds :
       \E r \in {initSimulation(Cur, N, w)} : Install(r)
  /\ probe' = [probe EXCEPT !.inits = @ + 1]
  /\ UNCHANGED twin

CallEndSimulation ==
  /\ phase = "running"
  /\ \E r \in {[Cur EXCEPT !.phase = "ended"]} : Install(r)
  /\ UNCHANGED <<twin, probe>>

NextRestart ==
  \/ CallInitSimulation
  \/ StepNaive
  \/ StepScatteredGrid
  \/ StepCoherentGrid
  \/ CallEndSimulation

SpecRestart == InitRestart /\ [][NextRestart]_vars

(***************************************************************************)
(* C24.  While the simulation runs, after the first and after every later  *)
(* initSimulation and after every step, the grid's minimum corner is       *)
(* -(gridCellWidth * halfSideCount) on each axis.                          *)
(***************************************************************************)
C24_GridMinimumIsFixed ==
  phase = "running" =>
    gridMinimum = <<-halfGridWidth, -halfGridWidth, -halfGridWidth>>

(***************************************************************************)
(* C23.  While the simulation runs, every position with all coordinates in *)
(* [-scene_scale, scene_scale] (the corners, face centres and centre of    *)
(* the domain, and the positions of the particles) has its three cell      *)
(* coordinates in 0..gridSideCount-1 and its flattened cell in             *)
(* 0..gridCellCount-1; and the cell labels with which a grid step indexes  *)
(* the boundary tables are in 0..gridCellCount-1.                          *)
(***************************************************************************)
DomainCoords == {-scene_scale, 0, scene_scale}
DomainSamples ==
  {<<x, y, z>> : x \in DomainCoords, y \in DomainCoords, z \in DomainCoords}

CellInLattice(p) ==
  /\ \A a \in 1 .. 3 :
       cellCoords(p, gridMinimum, gridCellWidth)[a] \in 0 .. (gridSideCount - 1)
  /\ cellOfPos(p, gridMinimum, gridCellWidth, gridSideCount) \in Cells

C23_DomainCellsInBounds ==
  phase = "running" =>
    /\ \A p \in DomainSamples : CellInLattice(p)
    /\ \A i \in Idx(numObjects) :
         InDomain(snapshotPositions[i]) => CellInLattice(snapshotPositions[i])
    /\ GridStepped =>
         \A k \in Idx(numObjects) :
           InDomain(last.oldPos[dev_particleArrayIndices[k]])
             => dev_particleGridIndices[k] \in Cells

(***************************************************************************)
(* C25.  In the boundary build over non-decreasing cell labels, in every   *)
(* order of the threads, no two threads store into the same entry of the   *)
(* start table and no two into the same entry of the end table, the        *)
(* entries that no longer hold -1 are the ones stored into, and when all   *)
(* threads have run the tables are those of the threads run in index       *)
(* order.                                                                  *)
(***************************************************************************)
Building == probe.kind = "kernIdentifyCellStartEnd"

\* the tables before the launch
ResetTable == [c \in BuildCells |-> -1]

WrittenCells(table) == {w.cell : w \in {x \in probe.writes : x.table = table}}

C25_BuildIsScheduleFree ==
  Building =>
    /\ \A w1 \in probe.writes, w2 \in probe.writes :
         (w1.table = w2.table /\ w1.cell = w2.cell) => w1.thread = w2.thread
    /\ {c \in BuildCells : probe.tbl.start[c] # -1} = WrittenCells("start")
    /\ {c \in BuildCells : probe.tbl.end[c] # -1} = WrittenCells("end")
    /\ Built(probe) =>
         probe.tbl = kernIdentifyCellStartEnd(probe.N,
                       probe.particleGridIndices, ResetTable, ResetTable)

\* three particles in two cells, the threads run in decreasing order
C25_Witness ==
  /\ Built(probe)
  /\ probe.N = MaxLen
  /\ probe.particleGridIndices[0] # probe.particleGridIndices[probe.N - 1]
  /\ Cardinality(probe.writes) > probe.N

(***************************************************************************)
(* C26.  In every step of every strategy, for every particle whose new     *)
(* velocity has, before the speed limit is applied, a component above      *)
(* maxSpeed, the thread prints the warning and stores the velocity the     *)
(* speed limit leaves.                                                     *)
(***************************************************************************)
\* newVector, before the speed limit, of the thread that wrote entry i of
\* the last step's output
rawVelocityOfLast(i) ==
  CASE last.strategy = "BruteForce" ->
         rawVelocityBruteForce(numObjects, i, last.oldPos, last.oldVel)
    [] last.strategy = "ScatteredGrid" ->
         rawVelocityScattered(
           CHOOSE k \in Idx(numObjects) : dev_particleArrayIndices[k] = i,
           gridSideCount, gridMinimum, gridCellWidth,
           dev_gridCellStartIndices, dev_gridCellEndIndices,
           dev_particleArrayIndices, last.oldPos, last.oldVel, wild)
    [] last.strategy = "CoherentGrid" ->
         rawVelocityCoherent(i, gridSideCount, gridMinimum, gridCellWidth,
           dev_gridCellStartIndices, dev_gridCellEndIndices, last.prePos,
           reorderedVel, wild)

C26_WarningWhenExceeded ==
  Stepped =>
    \A i \in Idx(numObjects) :
      speedLimitExceeded(rawVelocityOfLast(i)) =>
        /\ printsSpeedWarning(rawVelocityOfLast(i))
        /\ last.newVel[i] = clampSpeed(rawVelocityOfLast(i))

====
